---- MODULE Spec2Model ----
(***************************************************************************)
(* Model of the eosjs client core: the Api orchestrator (dist/eosjs-api.js) *)
(* with its ABI and contract caches, TAPoS generation, signing round trip   *)
(* and broadcast, and the Signature bridge (src/Signature.ts) between the   *)
(* chain's recoverable-signature bytes and elliptic's (r, s, recoveryParam).*)
(***************************************************************************)
EXTENDS Integers, Sequences, FiniteSets, TLC

(***************************************************************************)
(* JavaScript values of the loosely typed transaction and config fields.   *)
(* A field is absent (undefined), null, a number or a non-empty string.    *)
(***************************************************************************)
Undef == [t |-> "undef", v |-> 0]
Null == [t |-> "null", v |-> 0]
Num(n) == [t |-> "num", v |-> n]
Str(n) == [t |-> "str", v |-> n]

\* typeof x === 'number'
IsNumber(x) == x.t = "num"
\* JavaScript truthiness of x: !!x
Truthy(x) == \/ x.t = "str"
             \/ x.t = "num" /\ x.v # 0

(***************************************************************************)
(* Byte buffers: a Uint8Array is a sequence of bytes; a buffer that may be *)
(* null (serializedContextFreeData) carries a flag.                        *)
(***************************************************************************)
Buf(b) == [null |-> FALSE, bytes |-> b]
NullBuf == [null |-> TRUE, bytes |-> <<>>]

RECURSIVE Concat(_)
\* the items of a list of byte sequences, concatenated in list order
Concat(items) ==
    IF items = <<>> THEN <<>>
    ELSE IF Len(items) = 1 THEN items[1]
    ELSE LET half == Len(items) \div 2
         IN Concat(SubSeq(items, 1, half)) \o Concat(SubSeq(items, half + 1, Len(items)))

RECURSIVE SeqToSet(_)
SeqToSet(s) == IF s = <<>> THEN {} ELSE {Head(s)} \cup SeqToSet(Tail(s))

RECURSIVE Unique(_)
\* new Set(list), spread in insertion order: first occurrences, in order
Unique(s) ==
    IF s = <<>> THEN <<>>
    ELSE LET r == Unique(SubSeq(s, 1, Len(s) - 1))
             x == s[Len(s)]
         IN IF x \in SeqToSet(r) THEN r ELSE Append(r, x)

(***************************************************************************)
(* Bounds of the model.                                                    *)
(***************************************************************************)
\* transact() calls issued on one Api object
MaxTransacts == 2

\* distinct raw ABIs an account's contract may publish over time
MaxAbiBodies == 2

\* getCachedAbi() calls made directly on one Api object
MaxGets == 3

\* recovery parameters run over -MaxRecoveryParam .. MaxRecoveryParam
MaxRecoveryParam == 8

\* items of a context-free data list given to serializeContextFreeData directly
MaxCfdItems == 3

\* direct getContract() calls in a behaviour
MaxGetContracts == 2

\* direct getCachedAbi() calls made alongside the getContract() calls
MaxReloads == 1

(***************************************************************************)
(* The environment: accounts, the chain, the providers' answers.           *)
(***************************************************************************)
Accounts == {"a1", "a2"}

\* first byte of a raw ABI stands for its version string:
\* 1 for "eosio::abi/1.x" (supported), 2 for "eosio::abi/2.0" (not supported)
RawAbis == {<<ver, body>> : ver \in {1, 2}, body \in 1..MaxAbiBodies}
\* answers of the ABI provider to the fetches of transact()
AbiAnswers == {<<1, 1>>, <<2, 1>>}

NoInfo == [present |-> FALSE, chain_id |-> "",
           head_block_num |-> 0, last_irreversible_block_num |-> 0]
\* answers of get_info
Infos == {[present |-> TRUE, chain_id |-> "chainB",
           head_block_num |-> 10, last_irreversible_block_num |-> 8]}

NoBlock == [present |-> FALSE, via |-> "", block_num |-> 0, timestamp |-> 0, prefix |-> 0]
\* answer of get_block(n) / get_block_header_state(n)
Block(via, n) == [present |-> TRUE, via |-> via, block_num |-> n,
                  timestamp |-> 1000 + n, prefix |-> 500 + n]

KeyLists == {<<"K1">>, <<"K1", "K2">>}
NoKeys == [t |-> "undef", keys |-> <<>>]
KeyList(k) == [t |-> "list", keys |-> k]

(***************************************************************************)
(* Inputs of transact(): the transaction and the config.                   *)
(***************************************************************************)
Action(acc) == [account |-> acc, name |-> "transfer", hex |-> FALSE]
NoCfd == [present |-> FALSE, items |-> <<>>]
Cfd(items) == [present |-> TRUE, items |-> items]

\* the action lists and context-free data a transaction may carry
ActionInputs == {[cfa |-> <<>>, actions |-> <<Action("a1")>>],
                 [cfa |-> <<Action("a2")>>, actions |-> <<Action("a1"), Action("a1")>>]}
CfdInputs == {NoCfd, Cfd(<<<<1>>, <<2, 3>>>>)}

Tx(e, n, p, a, d) ==
    [expiration |-> e, ref_block_num |-> n, ref_block_prefix |-> p,
     context_free_actions |-> a.cfa, actions |-> a.actions, context_free_data |-> d]

\* transactions of the pipeline runs: TAPoS fields all given or all left out
Transactions ==
    {Tx(h[1], h[2], h[3], a, d) :
        h \in {<<Undef, Undef, Undef>>, <<Str(1), Num(5), Num(7)>>},
        a \in ActionInputs, d \in CfdInputs}
Configs ==
    [broadcast : BOOLEAN, sign : BOOLEAN, compression : BOOLEAN,
     blocksBehind : {Undef, Num(1)},
     useLastIrreversible : BOOLEAN,
     expireSeconds : {Undef, Num(30)}]

\* transactions of the TAPoS runs: every mix of absent, null, zero, numeric and
\* non-numeric header fields, one action
TaposTransactions ==
    {Tx(e, n, p, [cfa |-> <<>>, actions |-> <<Action("a1")>>], NoCfd) :
        e \in {Undef, Null, Str(1)},
        n \in {Undef, Num(0), Num(5), Str(2)},
        p \in {Undef, Num(7), Str(3)}}
TaposConfigs ==
    [broadcast : BOOLEAN, sign : BOOLEAN, compression : {FALSE},
     blocksBehind : {Undef, Num(0), Num(3)},
     useLastIrreversible : BOOLEAN,
     expireSeconds : {Undef, Num(0), Num(30)}]

NoTransaction == Tx(Undef, Undef, Undef, [cfa |-> <<>>, actions |-> <<>>], NoCfd)

NoConfig ==
    [broadcast |-> TRUE, sign |-> TRUE, compression |-> FALSE, blocksBehind |-> Undef,
     useLastIrreversible |-> FALSE, expireSeconds |-> Undef]

(***************************************************************************)
(* The binary codec and compression, as far as the orchestrator uses them. *)
(***************************************************************************)
RECURSIVE pushVaruint32(_)
\* SerialBuffer.pushVaruint32: 7 bits per byte, low group first, 0x80 = more
pushVaruint32(v) ==
    IF v \div 128 # 0 THEN <<128 + (v % 128)>> \o pushVaruint32(v \div 128)
    ELSE <<v>>

\* one value of the loosely typed header fields, as the codec writes it
ValBytes(x) ==
    <<CASE x.t = "undef" -> 0 [] x.t = "null" -> 1 [] x.t = "num" -> 2 [] OTHER -> 3, x.v>>

RECURSIVE ActionsBytes(_)
ActionsBytes(as) ==
    IF as = <<>> THEN <<>>
    ELSE <<(IF Head(as).account = "a1" THEN 1 ELSE 2), (IF Head(as).hex THEN 1 ELSE 0)>>
         \o ActionsBytes(Tail(as))

\* Api.serializeTransaction: the transaction header and its action lists
serializeTransaction(tx) ==
    ValBytes(tx.expiration) \o ValBytes(tx.ref_block_num) \o ValBytes(tx.ref_block_prefix)
    \o pushVaruint32(Len(tx.context_free_actions)) \o ActionsBytes(tx.context_free_actions)
    \o pushVaruint32(Len(tx.actions)) \o ActionsBytes(tx.actions)

\* SerialBuffer.pushBytes: what one context-free data item adds to the buffer,
\* its raw bytes
pushBytes(data) == data

\* serializeContextFreeData without the test for an empty list
serializeContextFreeDataOfEmpty(cfd) ==
    IF ~cfd.present THEN NullBuf
    ELSE Buf(pushVaruint32(Len(cfd.items))
             \o Concat([i \in 1..Len(cfd.items) |-> pushBytes(cfd.items[i])]))

\* Api.serializeContextFreeData
serializeContextFreeData(cfd) ==
    IF ~cfd.present \/ Len(cfd.items) = 0 THEN NullBuf
    ELSE Buf(pushVaruint32(Len(cfd.items))
             \o Concat([i \in 1..Len(cfd.items) |-> pushBytes(cfd.items[i])]))

\* pako deflate at level 9: a zlib stream, header 0x78 0xDA, then the payload
deflateSerializedArray(bytes) == <<120, 218>> \o bytes

\* ser.supportedAbiVersion on the version string at the head of the raw ABI
supportedAbiVersion(rawAbi) == rawAbi[1] = 1

\* Api.rawAbiToJson of a supported raw ABI: the structured form
rawAbiToJson(rawAbi) == [version |-> "eosio::abi/1.1", actions |-> <<"transfer">>, body |-> rawAbi[2]]

NoJson == [version |-> "", actions |-> <<>>, body |-> 0]
NoCachedAbi == [present |-> FALSE, rawAbi |-> <<>>, abi |-> NoJson]
CachedAbi(rawAbi) == [present |-> TRUE, rawAbi |-> rawAbi, abi |-> rawAbiToJson(rawAbi)]

NoContract == [present |-> FALSE, types |-> NoJson, actions |-> <<>>]
\* the {types, actions} descriptor getContract builds from a structured ABI
Contract(abi) == [present |-> TRUE, types |-> abi, actions |-> abi.actions]

\* ser.serializeAction: the action with its data in hex form
serializeAction(contract, action) == [action EXCEPT !.hex = TRUE]

\* ser.transactionHeader(refBlock, expireSeconds)
transactionHeader(refBlock, expireSeconds) ==
    [expiration |-> Str(refBlock.timestamp + expireSeconds.v),
     ref_block_num |-> Num(refBlock.block_num % 65536),
     ref_block_prefix |-> Num(refBlock.prefix)]

\* the merge written the other way round: the generated header wins
MergeFieldGeneratedWins(generated, own) == generated

\* __assign(__assign({}, header), transaction): own fields of the transaction win
MergeField(generated, own) == IF own.t = "undef" THEN generated ELSE own
MergeTapos(header, tx) ==
    [tx EXCEPT !.expiration = MergeField(header.expiration, tx.expiration),
               !.ref_block_num = MergeField(header.ref_block_num, tx.ref_block_num),
               !.ref_block_prefix = MergeField(header.ref_block_prefix, tx.ref_block_prefix)]

(***************************************************************************)
(* State.                                                                  *)
(***************************************************************************)
VARIABLES
    chainId,        \* this.chainId, "" when unset
    requiredKeys,   \* this.requiredKeys, the configured override list
    cachedAbis,     \* this.cachedAbis: account -> {rawAbi, abi}
    contracts,      \* this.contracts: account -> {types, actions}
    pc,             \* where the transact() call in flight is suspended
    transaction,    \* transact's transaction
    config,         \* transact's config
    info,           \* transact's info
    refBlock,       \* generateTapos's refBlock
    blockArg,       \* the block number asked of the chain
    abiTasks,       \* getTransactionAbis: the per-account getCachedAbi promises
    abis,           \* transact's abis
    serializedTransaction,
    serializedContextFreeData,
    pushTransactionArgs,
    availableKeys,
    keysArgs,       \* argument of authorityProvider.getRequiredKeys
    signArgs,       \* argument of signatureProvider.sign
    pushed,         \* argument of rpc.push_transaction
    result,         \* what transact() resolved with
    error,          \* message of the error transact() rejected with
    calls,          \* external calls issued by the transact() call, in order
    fetched,        \* accounts asked of the ABI provider by the call, in order
    abiCalls,       \* accounts getTransactionAbis called getCachedAbi for, in order
    built,          \* per serializeActions call: accounts whose descriptor
                    \* getContract built and stored, in order
    orphans,        \* ABI fetches still in flight whose transact() already failed
    answers,        \* what the key and signature providers answered to the call
    ncalls,         \* transact() calls started
    gets,           \* the getCachedAbi() calls made directly, by number
    ngets,          \* getCachedAbi() calls started
    ellipticSig,    \* Signature.fromElliptic's argument
    signature,      \* the Signature's Key {type, data}
    elliptic,       \* what toElliptic() returned
    sigPc,          \* how far the signature has come: none, encoded, decoded
    ctrs,           \* the getContract() calls made directly, by number
    nctrs,          \* getContract() calls started
    cfdCall         \* a direct serializeContextFreeData call: argument and return

apiVars == <<chainId, requiredKeys, cachedAbis, contracts>>
callVars == <<pc, transaction, config, info, refBlock, blockArg, abiTasks, abis,
              serializedTransaction, serializedContextFreeData, pushTransactionArgs,
              availableKeys, keysArgs, signArgs, pushed, result, error, calls, fetched,
              abiCalls, built, orphans, answers, ncalls>>
getVars == <<gets, ngets>>
sigVars == <<ellipticSig, signature, elliptic, sigPc>>
ctrVars == <<ctrs, nctrs>>

vars == <<chainId, requiredKeys, cachedAbis, contracts, pc, transaction, config, info,
          refBlock, blockArg, abiTasks, abis, serializedTransaction,
          serializedContextFreeData, pushTransactionArgs, availableKeys, keysArgs,
          signArgs, pushed, result, error, calls, fetched, abiCalls, built, orphans,
          answers, ncalls, gets, ngets, ellipticSig, signature, elliptic, sigPc,
          ctrs, nctrs, cfdCall>>

NoArgs == [signatures |-> <<>>, serializedTransaction |-> <<>>,
           serializedContextFreeData |-> NullBuf]
NoKeysArgs == [called |-> FALSE, transaction |-> NoTransaction, availableKeys |-> <<>>]
NoSignArgs == [called |-> FALSE, chainId |-> "", requiredKeys |-> <<>>,
               serializedTransaction |-> <<>>, serializedContextFreeData |-> NullBuf,
               abis |-> <<>>]
NoPushed == [called |-> FALSE, compression |-> 0, signatures |-> <<>>,
             serializedTransaction |-> <<>>, serializedContextFreeData |-> NullBuf]
NoResult == [kind |-> "none", args |-> NoArgs]
NoAnswers == [availableKeys |-> <<>>, requiredKeys |-> <<>>, sign |-> NoArgs]
NoTask == [st |-> "none", rawAbi |-> <<>>]
NoTasks == [a \in Accounts |-> NoTask]

\* error messages
EitherError == <<"Use either blocksBehind or useLastIrreversible">>
TaposError == <<"Required configuration or TAPOS fields are not present">>
VersionError == <<"Unsupported abi version">>
Cause(op) == <<op, " failed">>
\* the catch block rethrowing the error as it came
FetchingAbiErrorAsIs(account, message) == message

\* e.message = "fetching abi for " + accountName + ": " + e.message
FetchingAbiError(account, message) == <<"fetching abi for ", account, ": ">> \o message

(***************************************************************************)
(* The machine state as one record, so that the code between two           *)
(* suspension points is a function from state to state.                    *)
(***************************************************************************)
Cur ==
    [chainId |-> chainId, cachedAbis |-> cachedAbis, contracts |-> contracts, pc |-> pc,
     transaction |-> transaction, config |-> config, info |-> info,
     refBlock |-> refBlock, blockArg |-> blockArg, abiTasks |-> abiTasks, abis |-> abis,
     serializedTransaction |-> serializedTransaction,
     serializedContextFreeData |-> serializedContextFreeData,
     pushTransactionArgs |-> pushTransactionArgs, availableKeys |-> availableKeys,
     keysArgs |-> keysArgs, signArgs |-> signArgs, pushed |-> pushed, result |-> result,
     error |-> error, calls |-> calls, fetched |-> fetched, abiCalls |-> abiCalls,
     built |-> built, orphans |-> orphans,
     answers |-> answers, ncalls |-> ncalls]

Commit(m) ==
    /\ chainId' = m.chainId
    /\ cachedAbis' = m.cachedAbis
    /\ contracts' = m.contracts
    /\ pc' = m.pc
    /\ transaction' = m.transaction
    /\ config' = m.config
    /\ info' = m.info
    /\ refBlock' = m.refBlock
    /\ blockArg' = m.blockArg
    /\ abiTasks' = m.abiTasks
    /\ abis' = m.abis
    /\ serializedTransaction' = m.serializedTransaction
    /\ serializedContextFreeData' = m.serializedContextFreeData
    /\ pushTransactionArgs' = m.pushTransactionArgs
    /\ availableKeys' = m.availableKeys
    /\ keysArgs' = m.keysArgs
    /\ signArgs' = m.signArgs
    /\ pushed' = m.pushed
    /\ result' = m.result
    /\ error' = m.error
    /\ calls' = m.calls
    /\ fetched' = m.fetched
    /\ abiCalls' = m.abiCalls
    /\ built' = m.built
    /\ orphans' = m.orphans
    /\ answers' = m.answers
    /\ ncalls' = m.ncalls
    /\ UNCHANGED <<requiredKeys, getVars, sigVars, cfdCall, ctrVars>>

\* an external call is issued and the task suspends on it
Await(m, op) == [m EXCEPT !.pc = op, !.calls = Append(@, op)]

\* transact() rejects; ABI fetches of the call still in flight stay in flight
Throw(m, message) ==
    [m EXCEPT !.pc = "failed", !.error = message,
              !.abiTasks = NoTasks,
              !.orphans = [a \in Accounts |->
                              @[a] + (IF m.abiTasks[a].st = "pending" THEN 1 ELSE 0)]]

(***************************************************************************)
(* Api.prototype.transact, from its last step to its first.                *)
(***************************************************************************)
\* Api.pushSignedTransaction
pushSignedTransaction(m) ==
    [Await(m, "push_transaction") EXCEPT
        !.pushed = [called |-> TRUE, compression |-> 0,
                    signatures |-> m.pushTransactionArgs.signatures,
                    serializedTransaction |-> m.pushTransactionArgs.serializedTransaction,
                    serializedContextFreeData |->
                        m.pushTransactionArgs.serializedContextFreeData]]

\* pushCompressedSignedTransaction leaving absent context-free data absent
pushCompressedSignedTransactionKeepsNull(m) ==
    LET cfd == m.pushTransactionArgs.serializedContextFreeData IN
    [Await(m, "push_transaction") EXCEPT
        !.pushed = [called |-> TRUE, compression |-> 1,
                    signatures |-> m.pushTransactionArgs.signatures,
                    serializedTransaction |->
                        deflateSerializedArray(m.pushTransactionArgs.serializedTransaction),
                    serializedContextFreeData |->
                        IF cfd.null THEN NullBuf ELSE Buf(deflateSerializedArray(cfd.bytes))]]

\* Api.pushCompressedSignedTransaction
pushCompressedSignedTransaction(m) ==
    LET cfd == m.pushTransactionArgs.serializedContextFreeData IN
    [Await(m, "push_transaction") EXCEPT
        !.pushed = [called |-> TRUE, compression |-> 1,
                    signatures |-> m.pushTransactionArgs.signatures,
                    serializedTransaction |->
                        deflateSerializedArray(m.pushTransactionArgs.serializedTransaction),
                    serializedContextFreeData |->
                        Buf(deflateSerializedArray(IF cfd.null THEN <<>> ELSE cfd.bytes))]]

\* mutant: a compressed transaction is pushed even when broadcast is off
BroadcastWhenCompressed(m) ==
    IF m.config.compression THEN pushCompressedSignedTransaction(m)
    ELSE IF m.config.broadcast THEN pushSignedTransaction(m)
    ELSE [m EXCEPT !.pc = "done",
                   !.result = [kind |-> "args", args |-> m.pushTransactionArgs]]

\* transact case 14: broadcast or return
Broadcast(m) ==
    IF m.config.broadcast
    THEN IF m.config.compression
         THEN pushCompressedSignedTransaction(m)
         ELSE pushSignedTransaction(m)
    ELSE [m EXCEPT !.pc = "done",
                   !.result = [kind |-> "args", args |-> m.pushTransactionArgs]]

\* mutant: only the signatures of the answer are taken, the bytes stay local
SignedKeepsLocalBytes(m, answer) ==
    Broadcast([m EXCEPT !.pushTransactionArgs.signatures = answer.signatures])

\* transact case 13: the provider's answer becomes pushTransactionArgs
Signed(m, answer) == Broadcast([m EXCEPT !.pushTransactionArgs = answer])

\* transact case 12: the sign request
RequestSign(m, keys) ==
    [Await(m, "sign") EXCEPT
        !.signArgs = [called |-> TRUE, chainId |-> m.chainId, requiredKeys |-> keys,
                      serializedTransaction |-> m.serializedTransaction,
                      serializedContextFreeData |-> m.serializedContextFreeData,
                      abis |-> m.abis]]

\* mutant: the authority provider is asked even when an override list is set
ResolveKeysAlwaysAsks(m, keys) ==
    [Await([m EXCEPT !.availableKeys = keys], "getRequiredKeys") EXCEPT
        !.keysArgs = [called |-> TRUE, transaction |-> m.transaction,
                      availableKeys |-> keys]]

\* transact cases 9-11: after getAvailableKeys, resolve the required keys
ResolveKeys(m, keys) ==
    LET m1 == [m EXCEPT !.availableKeys = keys] IN
    IF requiredKeys.t = "undef"
    THEN [Await(m1, "getRequiredKeys") EXCEPT
            !.keysArgs = [called |-> TRUE, transaction |-> m.transaction,
                          availableKeys |-> keys]]
    ELSE RequestSign(m1, requiredKeys.keys)

\* Api.serializeActions over the contract cache: every getContract call of the
\* list tests the cache before any of them stores its descriptor
getContracts(cache, abiCache, actions) ==
    [a \in Accounts |->
        IF ~cache[a].present /\ \E i \in 1..Len(actions) : actions[i].account = a
        THEN Contract(abiCache[a].abi)
        ELSE cache[a]]

\* the getContract calls of one serializeActions call that find no descriptor:
\* each goes on to getAbi, builds the descriptor and stores it (lines 230-250)
getContractBuilds(cache, actions) ==
    LET accounts == [i \in 1..Len(actions) |-> actions[i].account]
    IN SelectSeq(accounts, LAMBDA a : ~cache[a].present)

serializeActions(cache, actions) ==
    [i \in 1..Len(actions) |-> serializeAction(cache[actions[i].account], actions[i])]

\* transact cases 6-8 with the sign option left out of account
SerializeAlwaysSigns(m) ==
    LET tx == m.transaction
        c1 == getContracts(m.contracts, m.cachedAbis, tx.context_free_actions)
        c2 == getContracts(c1, m.cachedAbis, tx.actions)
        tx1 == [tx EXCEPT !.context_free_actions = serializeActions(c1, tx.context_free_actions),
                          !.actions = serializeActions(c2, tx.actions)]
        st == serializeTransaction(tx1)
        scfd == serializeContextFreeData(tx1.context_free_data)
        m1 == [m EXCEPT !.contracts = c2,
                        !.built = <<getContractBuilds(m.contracts, tx.context_free_actions),
                                    getContractBuilds(c1, tx.actions)>>,
                        !.transaction = tx1,
                        !.serializedTransaction = st,
                        !.serializedContextFreeData = scfd,
                        !.pushTransactionArgs =
                            [signatures |-> <<>>, serializedTransaction |-> st,
                             serializedContextFreeData |-> scfd]]
    IN Await(m1, "getAvailableKeys")

\* transact cases 6-8: the abis are in; serialize and go on to sign or broadcast
Serialize(m) ==
    LET tx == m.transaction
        c1 == getContracts(m.contracts, m.cachedAbis, tx.context_free_actions)
        c2 == getContracts(c1, m.cachedAbis, tx.actions)
        tx1 == [tx EXCEPT !.context_free_actions = serializeActions(c1, tx.context_free_actions),
                          !.actions = serializeActions(c2, tx.actions)]
        st == serializeTransaction(tx1)
        scfd == serializeContextFreeData(tx1.context_free_data)
        m1 == [m EXCEPT !.contracts = c2,
                        !.built = <<getContractBuilds(m.contracts, tx.context_free_actions),
                                    getContractBuilds(c1, tx.actions)>>,
                        !.transaction = tx1,
                        !.serializedTransaction = st,
                        !.serializedContextFreeData = scfd,
                        !.pushTransactionArgs =
                            [signatures |-> <<>>, serializedTransaction |-> st,
                             serializedContextFreeData |-> scfd]]
    IN IF m.config.sign THEN Await(m1, "getAvailableKeys") ELSE Broadcast(m1)

\* the accounts of actions alone
TxAccountsActionsOnly(tx) ==
    [i \in 1..Len(tx.actions) |-> tx.actions[i].account]

\* the accounts of context_free_actions and actions, in order
TxAccounts(tx) ==
    LET actions == tx.context_free_actions \o tx.actions
    IN [i \in 1..Len(actions) |-> actions[i].account]

\* getTransactionAbis: Promise.all has resolved with one pair per unique account
JoinAbis(m) ==
    LET uniqueAccounts == Unique(TxAccounts(m.transaction)) IN
    Serialize([m EXCEPT
        !.abis = [i \in 1..Len(uniqueAccounts) |->
                    [accountName |-> uniqueAccounts[i],
                     abi |-> m.abiTasks[uniqueAccounts[i]].rawAbi]],
        !.abiTasks = NoTasks])

\* a cache whose first entry for an account is never replaced
StoreAbiFirstWins(cache, account, rawAbi) ==
    IF cache[account].present THEN cache
    ELSE [cache EXCEPT ![account] = CachedAbi(rawAbi)]

\* getCachedAbi line 171: this.cachedAbis.set(accountName, cachedAbi)
StoreAbi(cache, account, rawAbi) == [cache EXCEPT ![account] = CachedAbi(rawAbi)]

\* getCachedAbi with the reload flag left out of its test
CacheHitIgnoresReload(cache, account, reload) == cache[account].present

\* getCachedAbi's test for answering from the cache
CacheHit(cache, account, reload) == ~reload /\ cache[account].present

\* transact case 5, Api.getTransactionAbis: one getCachedAbi per unique account;
\* a cached account is answered at once, the others are asked of the ABI provider
getTransactionAbis(m) ==
    LET uniqueAccounts == Unique(TxAccounts(m.transaction))
        hit(a) == CacheHit(m.cachedAbis, a, FALSE)
        misses == SelectSeq(uniqueAccounts, LAMBDA a : ~hit(a))
        m1 == [m EXCEPT
                 !.abiTasks = [a \in Accounts |->
                     IF a \notin SeqToSet(uniqueAccounts) THEN NoTask
                     ELSE IF hit(a) THEN [st |-> "done", rawAbi |-> m.cachedAbis[a].rawAbi]
                     ELSE [st |-> "pending", rawAbi |-> <<>>]],
                 !.fetched = @ \o misses,
                 !.abiCalls = uniqueAccounts,
                 !.calls = @ \o [i \in 1..Len(misses) |-> "getRawAbi"]]
    IN IF misses = <<>> THEN JoinAbis(m1) ELSE [m1 EXCEPT !.pc = "getRawAbi"]

\* mutant: only the expiration is looked at
hasRequiredTaposFieldsExpirationOnly(tx) == Truthy(tx.expiration)

\* Api.hasRequiredTaposFields
hasRequiredTaposFields(tx) ==
    /\ Truthy(tx.expiration)
    /\ IsNumber(tx.ref_block_num)
    /\ IsNumber(tx.ref_block_prefix)

\* transact case 4: the check after TAPoS generation, or instead of it
CheckTapos(m) ==
    IF ~hasRequiredTaposFields(m.transaction) THEN Throw(m, TaposError)
    ELSE getTransactionAbis(m)

\* generateTapos case 2: the reference block number
taposBlockNumber(inf, cfg) ==
    IF cfg.useLastIrreversible THEN inf.last_irreversible_block_num
    ELSE inf.head_block_num - cfg.blocksBehind.v

\* generateTapos taking get_block only strictly below the last irreversible block
FetchRefBlockStrictlyBelow(m) ==
    LET n == taposBlockNumber(m.info, m.config)
        m1 == [m EXCEPT !.blockArg = n]
    IN IF n < m.info.last_irreversible_block_num
       THEN Await(m1, "get_block")
       ELSE Await(m1, "get_block_header_state")

\* generateTapos cases 2-4: ask for the reference block
FetchRefBlock(m) ==
    LET n == taposBlockNumber(m.info, m.config)
        m1 == [m EXCEPT !.blockArg = n]
    IN IF n <= m.info.last_irreversible_block_num
       THEN Await(m1, "get_block")
       ELSE Await(m1, "get_block_header_state")

\* Api.generateTapos, up to its first suspension
generateTapos(m) ==
    IF ~m.info.present THEN Await(m, "generateTapos.get_info") ELSE FetchRefBlock(m)

\* generateTapos case 6: merge the header of the reference block
MergeRefBlock(m, block) ==
    CheckTapos([m EXCEPT
        !.refBlock = block,
        !.transaction = MergeTapos(transactionHeader(block, m.config.expireSeconds), @)])

\* transact line 412: some TAPoS field is missing
MissingTapos(tx) ==
    \/ ~Truthy(tx.ref_block_num)
    \/ ~Truthy(tx.ref_block_prefix)
    \/ ~Truthy(tx.expiration)

\* transact line 413: the config asks for TAPoS generation
WantsTapos(cfg) ==
    /\ IsNumber(cfg.blocksBehind) \/ cfg.useLastIrreversible
    /\ Truthy(cfg.expireSeconds)

\* transact case 2: fill or check the TAPoS fields
FillTapos(m) ==
    IF MissingTapos(m.transaction)
    THEN IF WantsTapos(m.config) THEN generateTapos(m) ELSE CheckTapos(m)
    ELSE getTransactionAbis(m)

\* mutant: the test written as blocksBehind && useLastIrreversible
BothStrategiesTruthy(cfg) == Truthy(cfg.blocksBehind) /\ cfg.useLastIrreversible

\* transact line 402: both reference block strategies given
BothStrategies(cfg) == IsNumber(cfg.blocksBehind) /\ cfg.useLastIrreversible

\* transact asking get_info for the chain id on every call
EnterAsksAgain(m) ==
    IF BothStrategies(m.config) THEN Throw(m, EitherError)
    ELSE Await(m, "get_info")

\* transact case 0
Enter(m) ==
    IF BothStrategies(m.config) THEN Throw(m, EitherError)
    ELSE IF m.chainId = "" THEN Await(m, "get_info")
    ELSE FillTapos(m)

(***************************************************************************)
(* Signature (src/Signature.ts). A BN is its big-endian bytes without      *)
(* leading zeros; zero is the empty sequence.                              *)
(***************************************************************************)
KeyTypes == {"k1", "r1", "wa"}

lengthOfR == 32
lengthOfS == 32

RECURSIVE StripZeros(_)
StripZeros(bytes) ==
    IF bytes # <<>> /\ Head(bytes) = 0 THEN StripZeros(Tail(bytes)) ELSE bytes

\* new BN(bytes): the number the big-endian bytes spell
BN(bytes) == StripZeros(bytes)

\* BN.toArray() with no length given: as many bytes as the number needs, at
\* least one
toArray(bn) == IF bn = <<>> THEN <<0>> ELSE bn

\* Uint8Array.slice(begin, end)
slice(data, begin, end) ==
    SubSeq(data, begin + 1, IF end < Len(data) THEN end ELSE Len(data))

\* storing a number into a Uint8Array element
ToUint8(x) == x % 256

\* x & 3 on a 32-bit integer
And3(x) == x % 4

\* fromElliptic without the compressed-key offset of 4
eosioRecoveryParamUncompressed(recoveryParam, keyType) ==
    IF keyType = "k1" THEN recoveryParam + 27 ELSE recoveryParam

\* fromElliptic, lines 26-34
eosioRecoveryParam(recoveryParam, keyType) ==
    IF keyType = "k1"
    THEN recoveryParam + 27 + (IF recoveryParam <= 3 THEN 4 ELSE 0)
    ELSE recoveryParam

\* Signature.fromElliptic
fromElliptic(sig, keyType) ==
    LET r == toArray(sig.r)
        s == toArray(sig.s)
    IN [type |-> keyType,
        data |-> <<ToUint8(eosioRecoveryParam(sig.recoveryParam, keyType))>> \o r \o s]

\* toElliptic taking every key type for k1
ellipticRecoveryBitFieldAllK1(header, keyType) ==
    IF header - 27 > 3 THEN header - 27 - 4 ELSE header - 27

\* toElliptic, lines 54-62
ellipticRecoveryBitField(header, keyType) ==
    IF keyType = "k1"
    THEN IF header - 27 > 3 THEN header - 27 - 4 ELSE header - 27
    ELSE header

\* Signature.toElliptic
toElliptic(sig) ==
    [r |-> BN(slice(sig.data, 1, lengthOfR + 1)),
     s |-> BN(slice(sig.data, lengthOfR + 1, lengthOfR + lengthOfS + 1)),
     recoveryParam |-> And3(ellipticRecoveryBitField(sig.data[1], sig.type))]

\* the numbers r and s range over: 0, one byte, 31 bytes, 32 bytes
BNs == {<<>>} \cup {<<top>> \o [i \in 1..(len - 1) |-> 0] :
                        top \in {1, 255}, len \in {1, lengthOfR - 1, lengthOfR}}

RecoveryParams == ((0 - MaxRecoveryParam)..MaxRecoveryParam) \cup {228, 229, 256}

NoElliptic == [r |-> <<>>, s |-> <<>>, recoveryParam |-> 0]

SigInit ==
    /\ ellipticSig = NoElliptic
    /\ signature = [type |-> "k1", data |-> <<>>]
    /\ elliptic = NoElliptic
    /\ sigPc = "none"

\* Signature.fromElliptic(ellipticSig, keyType)
FromElliptic ==
    /\ sigPc = "none"
    /\ \E r \in BNs, s \in BNs, rp \in RecoveryParams, keyType \in KeyTypes :
         /\ ellipticSig' = [r |-> r, s |-> s, recoveryParam |-> rp]
         /\ signature' = fromElliptic(ellipticSig', keyType)
    /\ sigPc' = "encoded"
    /\ UNCHANGED <<elliptic, apiVars, callVars, getVars, cfdCall, ctrVars>>

\* signature.toElliptic()
ToElliptic ==
    /\ sigPc = "encoded"
    /\ elliptic' = toElliptic(signature)
    /\ sigPc' = "decoded"
    /\ UNCHANGED <<ellipticSig, signature, apiVars, callVars, getVars, cfdCall, ctrVars>>

(***************************************************************************)
(* getCachedAbi called directly, any number of calls in flight at once.    *)
(***************************************************************************)
\* getContract calls whose getAbi was answered from the cache and whose
\* continuation is queued: the answers of the provider are handled after these
Microtasks == {i \in 1..MaxGetContracts : ctrs[i].st = "getAbi"}

NoGet == [st |-> "none", account |-> "", reload |-> FALSE, asked |-> 0,
          before |-> NoCachedAbi, rawAbi |-> <<>>,
          value |-> NoCachedAbi, cause |-> <<>>, error |-> <<>>]

\* messages of the errors abiProvider.getRawAbi may reject with
AbiProviderErrors == {Cause("getRawAbi"), <<"unknown key (boost::tuples::tuple)">>}

GetInit ==
    /\ gets = [i \in 1..MaxGets |-> NoGet]
    /\ ngets = 0

\* getCachedAbi case 0: answer from the cache, or ask the ABI provider
GetCachedAbi(account, reload) ==
    /\ ngets < MaxGets
    /\ ngets' = ngets + 1
    /\ LET call == [NoGet EXCEPT
                     !.account = account, !.reload = reload,
                     !.before = cachedAbis[account]]
       IN gets' = [gets EXCEPT ![ngets + 1] =
                     IF CacheHit(cachedAbis, account, reload)
                     THEN [call EXCEPT !.st = "done", !.value = cachedAbis[account]]
                     ELSE [call EXCEPT !.st = "fetching", !.asked = @ + 1]]
    /\ UNCHANGED <<apiVars, callVars, sigVars, cfdCall, ctrVars>>

\* getCachedAbi cases 2 and 4: decode what the provider answered, store, return
GetResolve(i) ==
    /\ gets[i].st = "fetching"
    /\ Microtasks = {}
    /\ \E rawAbi \in RawAbis :
         IF supportedAbiVersion(rawAbi)
         THEN /\ cachedAbis' = StoreAbi(cachedAbis, gets[i].account, rawAbi)
              /\ gets' = [gets EXCEPT ![i].st = "done", ![i].rawAbi = rawAbi,
                                      ![i].value = CachedAbi(rawAbi)]
         ELSE /\ cachedAbis' = cachedAbis
              /\ gets' = [gets EXCEPT ![i].st = "failed", ![i].rawAbi = rawAbi,
                             ![i].error = FetchingAbiError(gets[i].account, VersionError)]
    /\ UNCHANGED <<chainId, requiredKeys, contracts, ngets, callVars, sigVars, cfdCall, ctrVars>>

\* a getCachedAbi that drops the account's entry when the provider failed
GetRejectDropsEntry(i) ==
    /\ gets[i].st = "fetching"
    /\ Microtasks = {}
    /\ cachedAbis' = [cachedAbis EXCEPT ![gets[i].account] = NoCachedAbi]
    /\ \E m \in AbiProviderErrors :
         gets' = [gets EXCEPT ![i].st = "failed", ![i].cause = m,
                                 ![i].error = FetchingAbiError(gets[i].account, m)]
    /\ UNCHANGED <<chainId, requiredKeys, contracts, ngets, callVars, sigVars, cfdCall,
                   ctrVars>>

\* getCachedAbi case 3: the provider failed
GetReject(i) ==
    /\ gets[i].st = "fetching"
    /\ Microtasks = {}
    /\ \E m \in AbiProviderErrors :
         gets' = [gets EXCEPT ![i].st = "failed", ![i].cause = m,
                                 ![i].error = FetchingAbiError(gets[i].account, m)]
    /\ UNCHANGED <<apiVars, ngets, callVars, sigVars, cfdCall, ctrVars>>

(***************************************************************************)
(* getContract called directly, alongside direct getCachedAbi calls.       *)
(***************************************************************************)
NoCtr == [st |-> "none", account |-> "", reload |-> FALSE, asked |-> 0,
          before |-> NoContract, abi |-> NoJson, rawAbi |-> <<>>,
          value |-> NoContract, error |-> <<>>]

CtrInit ==
    /\ ctrs = [i \in 1..MaxGetContracts |-> NoCtr]
    /\ nctrs = 0

\* Api.getAbi: the structured form of what getCachedAbi returned
getAbi(cachedAbi) == cachedAbi.abi

\* getContract with the reload flag left out of its test
ContractHitIgnoresReload(cache, account, reload) == cache[account].present

\* getContract's test for answering from the contract cache
ContractHit(cache, account, reload) == ~reload /\ cache[account].present

\* getContract line 249: this.contracts.set(accountName, result)
StoreContract(cache, account, abi) == [cache EXCEPT ![account] = Contract(abi)]

\* getContract case 0: answer from the contract cache, or await getAbi, which
\* getCachedAbi answers from the ABI cache or by asking the ABI provider
GetContract(account, reload) ==
    /\ nctrs < MaxGetContracts
    /\ nctrs' = nctrs + 1
    /\ LET call == [NoCtr EXCEPT
                     !.account = account, !.reload = reload,
                     !.before = contracts[account]]
       IN ctrs' = [ctrs EXCEPT ![nctrs + 1] =
                     IF ContractHit(contracts, account, reload)
                     THEN [call EXCEPT !.st = "done", !.value = contracts[account]]
                     ELSE IF CacheHit(cachedAbis, account, reload)
                     THEN [call EXCEPT !.st = "getAbi",
                                       !.abi = getAbi(cachedAbis[account])]
                     ELSE [call EXCEPT !.st = "fetching", !.asked = @ + 1]]
    /\ UNCHANGED <<apiVars, callVars, getVars, sigVars, cfdCall>>

\* getContract case 1 after a cached ABI: build the descriptor, store, return
ContractContinue(i) ==
    /\ ctrs[i].st = "getAbi"
    /\ contracts' = StoreContract(contracts, ctrs[i].account, ctrs[i].abi)
    /\ ctrs' = [ctrs EXCEPT ![i].st = "done", ![i].value = Contract(ctrs[i].abi)]
    /\ UNCHANGED <<chainId, requiredKeys, cachedAbis, nctrs, callVars, getVars,
                   sigVars, cfdCall>>

\* the provider answered: getCachedAbi decodes and stores the ABI, getAbi hands
\* on its structured form, getContract builds the descriptor, stores, returns
ContractResolve(i) ==
    /\ ctrs[i].st = "fetching"
    /\ Microtasks = {}
    /\ \E rawAbi \in RawAbis :
         IF supportedAbiVersion(rawAbi)
         THEN LET abi == getAbi(CachedAbi(rawAbi)) IN
              /\ cachedAbis' = StoreAbi(cachedAbis, ctrs[i].account, rawAbi)
              /\ contracts' = StoreContract(contracts, ctrs[i].account, abi)
              /\ ctrs' = [ctrs EXCEPT ![i].st = "done", ![i].rawAbi = rawAbi,
                                      ![i].abi = abi, ![i].value = Contract(abi)]
         ELSE /\ UNCHANGED <<cachedAbis, contracts>>
              /\ ctrs' = [ctrs EXCEPT ![i].st = "failed", ![i].rawAbi = rawAbi,
                             ![i].error = FetchingAbiError(ctrs[i].account, VersionError)]
    /\ UNCHANGED <<chainId, requiredKeys, nctrs, callVars, getVars, sigVars, cfdCall>>

\* the provider failed: getCachedAbi rethrows, getAbi and getContract reject
ContractReject(i) ==
    /\ ctrs[i].st = "fetching"
    /\ Microtasks = {}
    /\ \E m \in AbiProviderErrors :
         ctrs' = [ctrs EXCEPT ![i].st = "failed",
                                 ![i].error = FetchingAbiError(ctrs[i].account, m)]
    /\ UNCHANGED <<apiVars, nctrs, callVars, getVars, sigVars, cfdCall>>

(***************************************************************************)
(* serializeContextFreeData called directly.                               *)
(***************************************************************************)
\* the byte strings a context-free data item may be
CfdItems == {<<>>, <<1>>, <<2, 3>>}

\* the lists of up to n items
CfdLists(n) == UNION {[1..k -> CfdItems] : k \in 0..n}

\* what the caller may pass: nothing, a short list (the empty one included), or
\* a list long enough for a two-byte count
ContextFreeDatas ==
    {NoCfd} \cup {Cfd(l) : l \in CfdLists(MaxCfdItems)}
            \cup {Cfd([i \in 1..(127 + MaxCfdItems) |-> <<7>>])}

NoCfdCall == [called |-> FALSE, contextFreeData |-> NoCfd, buffer |-> NullBuf]

CfdInit == cfdCall = NoCfdCall

\* api.serializeContextFreeData(contextFreeData)
SerializeContextFreeData ==
    /\ ~cfdCall.called
    /\ \E d \in ContextFreeDatas :
         cfdCall' = [called |-> TRUE, contextFreeData |-> d,
                     buffer |-> serializeContextFreeData(d)]
    /\ UNCHANGED <<apiVars, callVars, getVars, sigVars, ctrVars>>

(***************************************************************************)
(* Actions: a call of transact(), and the answers of its collaborators.    *)
(***************************************************************************)
ApiInit ==
    /\ chainId \in {"", "chainA"}
    /\ requiredKeys \in {NoKeys, KeyList(<<"K9">>)}
    /\ cachedAbis = [a \in Accounts |-> NoCachedAbi]
    /\ contracts = [a \in Accounts |-> NoContract]
    /\ pc = "idle"
    /\ transaction = NoTransaction
    /\ config = NoConfig
    /\ info = NoInfo
    /\ refBlock = NoBlock
    /\ blockArg = 0
    /\ abiTasks = NoTasks
    /\ abis = <<>>
    /\ serializedTransaction = <<>>
    /\ serializedContextFreeData = NullBuf
    /\ pushTransactionArgs = NoArgs
    /\ availableKeys = <<>>
    /\ keysArgs = NoKeysArgs
    /\ signArgs = NoSignArgs
    /\ pushed = NoPushed
    /\ result = NoResult
    /\ error = <<>>
    /\ calls = <<>>
    /\ fetched = <<>>
    /\ abiCalls = <<>>
    /\ built = <<>>
    /\ orphans = [a \in Accounts |-> 0]
    /\ answers = NoAnswers
    /\ ncalls = 0

\* the Api object with the frame of a new transact(tx, cfg) call
Frame(tx, cfg) ==
    [chainId |-> chainId, cachedAbis |-> cachedAbis, contracts |-> contracts,
     pc |-> "idle", transaction |-> tx, config |-> cfg, info |-> NoInfo,
     refBlock |-> NoBlock, blockArg |-> 0, abiTasks |-> NoTasks, abis |-> <<>>,
     serializedTransaction |-> <<>>, serializedContextFreeData |-> NullBuf,
     pushTransactionArgs |-> NoArgs, availableKeys |-> <<>>, keysArgs |-> NoKeysArgs,
     signArgs |-> NoSignArgs, pushed |-> NoPushed, result |-> NoResult, error |-> <<>>,
     calls |-> <<>>, fetched |-> <<>>, abiCalls |-> <<>>, built |-> <<>>,
     orphans |-> orphans, answers |-> NoAnswers,
     ncalls |-> ncalls]

\* the caller invokes api.transact(tx, cfg)
Transact(txs, cfgs) ==
    /\ pc = "idle"
    /\ ncalls < MaxTransacts
    /\ \E tx \in txs, cfg \in cfgs :
         Commit(Enter([Frame(tx, cfg) EXCEPT !.ncalls = @ + 1]))

\* the promise of transact() has settled and the caller has its outcome: the
\* call's frame is gone, the Api object stays
Settled ==
    /\ pc \in {"done", "failed"}
    /\ Commit(Frame(NoTransaction, NoConfig))

\* transact case 1: get_info answered, the chain id is cached
GetInfoResolve ==
    /\ pc = "get_info"
    /\ \E inf \in Infos : Commit(FillTapos([Cur EXCEPT !.info = inf, !.chainId = inf.chain_id]))

GetInfoReject ==
    /\ pc = "get_info"
    /\ Commit(Throw(Cur, Cause("get_info")))

\* generateTapos case 1
TaposInfoResolve ==
    /\ pc = "generateTapos.get_info"
    /\ \E inf \in Infos : Commit(FetchRefBlock([Cur EXCEPT !.info = inf]))

TaposInfoReject ==
    /\ pc = "generateTapos.get_info"
    /\ Commit(Throw(Cur, Cause("get_info")))

\* generateTapos case 3, tryGetBlockHeaderState case 3
GetBlockResolve ==
    /\ pc = "get_block"
    /\ Commit(MergeRefBlock(Cur, Block("get_block", blockArg)))

GetBlockReject ==
    /\ pc = "get_block"
    /\ Commit(Throw(Cur, Cause("get_block")))

\* tryGetBlockHeaderState case 1
HeaderStateResolve ==
    /\ pc = "get_block_header_state"
    /\ Commit(MergeRefBlock(Cur, Block("get_block_header_state", blockArg)))

\* tryGetBlockHeaderState without its catch: the failure ends the call
HeaderStateRejectFails ==
    /\ pc = "get_block_header_state"
    /\ Commit(Throw(Cur, Cause("get_block_header_state")))

\* tryGetBlockHeaderState case 2: fall back to get_block
HeaderStateReject ==
    /\ pc = "get_block_header_state"
    /\ Commit(Await(Cur, "get_block"))

\* getTransactionAbis never resolving its Promise.all
AbiResolveNeverJoins(account) ==
    /\ pc = "getRawAbi"
    /\ abiTasks[account].st = "pending"
    /\ \E rawAbi \in AbiAnswers :
       IF ~supportedAbiVersion(rawAbi)
       THEN Commit(Throw([Cur EXCEPT !.abiTasks[account] = NoTask],
                         FetchingAbiError(account, VersionError)))
       ELSE Commit([Cur EXCEPT
                        !.cachedAbis = StoreAbi(@, account, rawAbi),
                        !.abiTasks[account] = [st |-> "done", rawAbi |-> rawAbi]])

\* getCachedAbi cases 2 and 4 for one account of the call: decode, store, return
AbiResolve(account) ==
    /\ pc = "getRawAbi"
    /\ abiTasks[account].st = "pending"
    /\ \E rawAbi \in AbiAnswers :
       IF ~supportedAbiVersion(rawAbi)
       THEN Commit(Throw([Cur EXCEPT !.abiTasks[account] = NoTask],
                         FetchingAbiError(account, VersionError)))
       ELSE LET m == [Cur EXCEPT
                        !.cachedAbis = StoreAbi(@, account, rawAbi),
                        !.abiTasks[account] = [st |-> "done", rawAbi |-> rawAbi]]
            IN IF \E a \in Accounts : m.abiTasks[a].st = "pending"
               THEN Commit(m)
               ELSE Commit(JoinAbis(m))

\* a getCachedAbi that asks the provider again when the provider failed
AbiRejectRetries(account) ==
    /\ pc = "getRawAbi"
    /\ abiTasks[account].st = "pending"
    /\ Commit([Cur EXCEPT !.fetched = Append(@, account),
                          !.calls = Append(@, "getRawAbi")])

\* getCachedAbi case 3: the provider failed
AbiReject(account) ==
    /\ pc = "getRawAbi"
    /\ abiTasks[account].st = "pending"
    /\ Commit(Throw([Cur EXCEPT !.abiTasks[account] = NoTask],
                    FetchingAbiError(account, Cause("getRawAbi"))))

\* a fetch outliving its failed call is answered: getCachedAbi still stores
OrphanResolve(account) ==
    /\ orphans[account] > 0
    /\ orphans' = [orphans EXCEPT ![account] = @ - 1]
    /\ \E rawAbi \in AbiAnswers :
         cachedAbis' = IF supportedAbiVersion(rawAbi)
                       THEN StoreAbi(cachedAbis, account, rawAbi)
                       ELSE cachedAbis
    /\ UNCHANGED <<chainId, requiredKeys, contracts, pc, transaction, config, info,
                   refBlock, blockArg, abiTasks, abis, serializedTransaction,
                   serializedContextFreeData, pushTransactionArgs, availableKeys,
                   keysArgs, signArgs, pushed, result, error, calls, fetched, abiCalls,
                   built, answers, ncalls, getVars, sigVars, cfdCall, ctrVars>>

OrphanReject(account) ==
    /\ orphans[account] > 0
    /\ orphans' = [orphans EXCEPT ![account] = @ - 1]
    /\ UNCHANGED <<chainId, requiredKeys, cachedAbis, contracts, pc, transaction, config,
                   info, refBlock, blockArg, abiTasks, abis, serializedTransaction,
                   serializedContextFreeData, pushTransactionArgs, availableKeys,
                   keysArgs, signArgs, pushed, result, error, calls, fetched, abiCalls,
                   built, answers, ncalls, getVars, sigVars, cfdCall, ctrVars>>

\* transact case 9
AvailableKeysResolve ==
    /\ pc = "getAvailableKeys"
    /\ \E keys \in KeyLists :
         Commit(ResolveKeys([Cur EXCEPT !.answers.availableKeys = keys], keys))

AvailableKeysReject ==
    /\ pc = "getAvailableKeys"
    /\ Commit(Throw(Cur, Cause("getAvailableKeys")))

\* what an authority provider may answer: keys among the available ones
RequiredKeysAnswers(args) == {args.availableKeys, <<args.availableKeys[1]>>}

\* transact case 10
RequiredKeysResolve ==
    /\ pc = "getRequiredKeys"
    /\ \E keys \in RequiredKeysAnswers(keysArgs) :
         Commit(RequestSign([Cur EXCEPT !.answers.requiredKeys = keys], keys))

RequiredKeysReject ==
    /\ pc = "getRequiredKeys"
    /\ Commit(Throw(Cur, Cause("getRequiredKeys")))

\* what a signature provider may answer to a sign request: the request's bytes
\* signed, or its own encoding of them
SignAnswers(args) ==
    {[signatures |-> <<"SIG">>, serializedTransaction |-> args.serializedTransaction,
      serializedContextFreeData |-> args.serializedContextFreeData],
     [signatures |-> <<"SIG", "SIG2">>,
      serializedTransaction |-> <<255>> \o args.serializedTransaction,
      serializedContextFreeData |-> Buf(<<0>>)]}

\* transact case 13: the provider's answer replaces pushTransactionArgs
SignResolve ==
    /\ pc = "sign"
    /\ \E answer \in SignAnswers(signArgs) :
         Commit(Signed([Cur EXCEPT !.answers.sign = answer], answer))

\* a failed sign taken for an empty answer: the call goes on unsigned
SignRejectSwallowed ==
    /\ pc = "sign"
    /\ Commit(Broadcast(Cur))

SignReject ==
    /\ pc = "sign"
    /\ Commit(Throw(Cur, Cause("sign")))

\* push_transaction answered: transact resolves with the node's response
PushResolve ==
    /\ pc = "push_transaction"
    /\ Commit([Cur EXCEPT !.pc = "done", !.result = [kind |-> "receipt", args |-> NoArgs]])

PushReject ==
    /\ pc = "push_transaction"
    /\ Commit(Throw(Cur, Cause("push_transaction")))

\* a collaborator answers the call in flight: it fails, or it succeeds
Collaborator ==
    \/ GetInfoReject
    \/ TaposInfoReject
    \/ GetBlockReject
    \/ HeaderStateReject
    \/ \E a \in Accounts : AbiReject(a)
    \/ AvailableKeysReject
    \/ RequiredKeysReject
    \/ SignReject
    \/ PushReject
    \/ GetInfoResolve
    \/ TaposInfoResolve
    \/ GetBlockResolve
    \/ HeaderStateResolve
    \/ \E a \in Accounts : AbiResolve(a)
    \/ AvailableKeysResolve
    \/ RequiredKeysResolve
    \/ SignResolve
    \/ PushResolve

\* the collaborators' answers to the call in flight, and its settling
Answer == Collaborator \/ Settled

\* answers to ABI fetches whose call has already failed
Orphan ==
    \/ \E a \in Accounts : OrphanResolve(a)
    \/ \E a \in Accounts : OrphanReject(a)

Init == ApiInit /\ GetInit /\ SigInit /\ CfdInit /\ CtrInit

Next == Transact(Transactions, Configs) \/ Answer \/ Orphan

Spec == Init /\ [][Next]_vars

\* the configs of the runs to completion: every mix of broadcast, sign and the
\* two reference block strategies
LiveConfigs == {cfg \in Configs : ~cfg.compression /\ cfg.expireSeconds = Num(30)}

\* their transactions: with and without TAPoS fields, one and two accounts
LiveTransactions == {tx \in Transactions : ~tx.context_free_data.present}

NextLive == Transact(LiveTransactions, LiveConfigs) \/ Answer \/ Orphan

\* the pipeline when every collaborator call is answered in the end
SpecLive == Init /\ [][NextLive]_vars /\ WF_vars(Collaborator)

NextTapos == Transact(TaposTransactions, TaposConfigs) \/ Answer

\* the pipeline over the whole range of TAPoS fields and TAPoS options
SpecTapos == Init /\ [][NextTapos]_vars

NextCache ==
    \/ \E a \in Accounts, reload \in BOOLEAN : GetCachedAbi(a, reload)
    \/ \E i \in 1..MaxGets : GetResolve(i)
    \/ \E i \in 1..MaxGets : GetReject(i)

\* the ABI cache under direct getCachedAbi calls
SpecCache == Init /\ [][NextCache]_vars

\* the account the direct getContract calls are about
ContractAccounts == {"a1"}

NextContract ==
    \/ \E a \in ContractAccounts, reload \in BOOLEAN : GetContract(a, reload)
    \/ \E i \in 1..MaxGetContracts : ContractContinue(i)
    \/ \E i \in 1..MaxGetContracts : ContractResolve(i)
    \/ \E i \in 1..MaxGetContracts : ContractReject(i)
    \/ ngets < MaxReloads /\ \E a \in ContractAccounts, reload \in BOOLEAN : GetCachedAbi(a, reload)
    \/ \E i \in 1..MaxGets : GetResolve(i)
    \/ \E i \in 1..MaxGets : GetReject(i)

\* both caches under direct getContract and getCachedAbi calls
SpecContract == Init /\ [][NextContract]_vars

NextCfd == SerializeContextFreeData

\* serializeContextFreeData over absent, empty, short and long lists
SpecCfd == Init /\ [][NextCfd]_vars

NextSig == FromElliptic \/ ToElliptic

\* a signature taken from elliptic's form and back
SpecSig == Init /\ [][NextSig]_vars

(***************************************************************************)
(* Claims about transact().                                                *)
(***************************************************************************)
\* the calls of the log that are op
Count(log, op) == Cardinality({i \in 1..Len(log) : log[i] = op})

\* C1: transact() called with a numeric blocksBehind and useLastIrreversible both
\* set fails with the 'Use either' error before any external call is issued, and
\* leaves the chain id and both caches as they were.
C1_BothStrategiesFailFirst ==
    [][(/\ pc = "idle"
        /\ pc' # "idle"
        /\ config'.blocksBehind.t = "num"
        /\ config'.useLastIrreversible)
       => (/\ pc' = "failed"
           /\ error' = <<"Use either blocksBehind or useLastIrreversible">>
           /\ calls' = <<>>
           /\ fetched' = <<>>
           /\ ~keysArgs'.called /\ ~signArgs'.called /\ ~pushed'.called
           /\ chainId' = chainId
           /\ cachedAbis' = cachedAbis
           /\ contracts' = contracts)]_vars

\* C1 witness: such a call has failed on an Api whose chain id was still unset,
\* with blocksBehind = 0
C1_Witness ==
    /\ pc = "failed"
    /\ config.blocksBehind = Num(0)
    /\ config.useLastIrreversible
    /\ error = <<"Use either blocksBehind or useLastIrreversible">>
    /\ chainId = ""

\* a transaction that lacks at least one of the three TAPoS fields
LacksTaposField(tx) ==
    \/ tx.expiration.t = "undef"
    \/ tx.ref_block_num.t = "undef"
    \/ tx.ref_block_prefix.t = "undef"

\* a config with none of blocksBehind, useLastIrreversible, expireSeconds
NoTaposOptions(cfg) ==
    /\ cfg.blocksBehind.t = "undef"
    /\ ~cfg.useLastIrreversible
    /\ cfg.expireSeconds.t = "undef"

\* C2: a transact() call on a transaction lacking a TAPoS field, with none of
\* blocksBehind / useLastIrreversible / expireSeconds, never gets past the TAPoS
\* check: it fails there with 'Required configuration or TAPOS fields are not
\* present', and issues no ABI, block, key, sign or push_transaction call. The
\* only call it may issue is the get_info that resolves an unset chain id, and
\* only the failure of that get_info can end it with another error.
C2_IncompleteTaposFails ==
    (pc # "idle" /\ LacksTaposField(transaction) /\ NoTaposOptions(config))
    => /\ pc \in {"get_info", "failed"}
       /\ pc = "failed" =>
            \/ error = <<"Required configuration or TAPOS fields are not present">>
            \/ /\ error = <<"get_info", " failed">>
               /\ calls = <<"get_info">>
               /\ ~info.present
       /\ calls \in {<<>>, <<"get_info">>}
       /\ fetched = <<>>
       /\ ~refBlock.present
       /\ ~keysArgs.called /\ ~signArgs.called /\ ~pushed.called

\* C2 witness: such a call, after get_info has given the chain id, has failed
\* with the configuration error
C2_Witness ==
    /\ pc = "failed"
    /\ LacksTaposField(transaction)
    /\ transaction.expiration.t = "str"
    /\ NoTaposOptions(config)
    /\ info.present
    /\ error = <<"Required configuration or TAPOS fields are not present">>

\* C3 (as claimed): whenever signatureProvider.sign is invoked, the transaction
\* being signed has a non-null expiration and numeric ref_block_num and
\* ref_block_prefix.
C3_SignedTaposIsNumeric ==
    signArgs.called
    => /\ transaction.expiration.t \notin {"undef", "null"}
       /\ transaction.ref_block_num.t = "num"
       /\ transaction.ref_block_prefix.t = "num"

\* C4: with sign = true, what transact() returns (broadcast = false) or hands to
\* push_transaction (broadcast = true) is exactly the tuple the signature
\* provider answered, whether or not its bytes are those of the request.
C4_ProviderAnswerReplaces ==
    config.sign
    => /\ (pc = "done" /\ ~config.broadcast)
            => result = [kind |-> "args", args |-> answers.sign]
       /\ (pushed.called /\ ~config.compression)
            => /\ pushed.signatures = answers.sign.signatures
               /\ pushed.serializedTransaction = answers.sign.serializedTransaction
               /\ pushed.serializedContextFreeData = answers.sign.serializedContextFreeData
       /\ (pushed.called /\ config.compression)
            => /\ pushed.signatures = answers.sign.signatures
               /\ pushed.serializedTransaction =
                    deflateSerializedArray(answers.sign.serializedTransaction)

\* C4 witness: a signed, unsent result whose bytes differ from the request's
C4_Witness ==
    /\ pc = "done"
    /\ config.sign
    /\ ~config.broadcast
    /\ signArgs.called
    /\ result.args.serializedTransaction # signArgs.serializedTransaction
    /\ result.args.signatures # <<>>

\* C5: with broadcast = false, transact() never calls push_transaction, whatever
\* sign and compression are, and it returns the uncompressed {signatures,
\* serializedTransaction, serializedContextFreeData} tuple.
C5_NoBroadcastNoPush ==
    (pc # "idle" /\ ~config.broadcast)
    => /\ Count(calls, "push_transaction") = 0
       /\ ~pushed.called
       /\ pc # "push_transaction"
       /\ pc = "done" =>
            /\ result.kind = "args"
            /\ result.args =
                 IF config.sign THEN answers.sign
                 ELSE [signatures |-> <<>>,
                       serializedTransaction |-> serializeTransaction(transaction),
                       serializedContextFreeData |->
                           serializeContextFreeData(transaction.context_free_data)]

\* C5 witness: an unsigned call with compression requested has returned unsent
C5_Witness ==
    /\ pc = "done"
    /\ ~config.broadcast
    /\ config.compression
    /\ ~config.sign
    /\ result.kind = "args"
    /\ ~result.args.serializedContextFreeData.null

\* the key and signature calls of the log, in order
KeyCalls(log) ==
    SelectSeq(log, LAMBDA op : op \in {"getAvailableKeys", "getRequiredKeys", "sign"})

\* C6: with sign = true the signing round trip is getAvailableKeys, then the
\* required keys, then sign. With a configured override list getRequiredKeys is
\* never called and sign gets exactly that list; otherwise getRequiredKeys is
\* called once, with the availableKeys the signature provider answered in this
\* call, and sign gets exactly its answer.
C6_SigningRoundTrip ==
    /\ requiredKeys.t = "list" =>
         /\ KeyCalls(calls) \in {<<>>, <<"getAvailableKeys">>, <<"getAvailableKeys", "sign">>}
         /\ ~keysArgs.called
         /\ signArgs.called => signArgs.requiredKeys = requiredKeys.keys
    /\ requiredKeys.t = "undef" =>
         /\ KeyCalls(calls) \in {<<>>, <<"getAvailableKeys">>,
                                 <<"getAvailableKeys", "getRequiredKeys">>,
                                 <<"getAvailableKeys", "getRequiredKeys", "sign">>}
         /\ keysArgs.called =>
              /\ Count(calls, "getAvailableKeys") = 1
              /\ keysArgs.availableKeys = answers.availableKeys
              /\ keysArgs.transaction = transaction
         /\ signArgs.called => signArgs.requiredKeys = answers.requiredKeys
    /\ (config.sign /\ pc \in {"push_transaction", "done"}) => signArgs.called

\* C6 witness: sign was asked with the authority provider's answer, a proper
\* part of the available keys
C6_Witness ==
    /\ requiredKeys.t = "undef"
    /\ signArgs.called
    /\ keysArgs.availableKeys = <<"K1", "K2">>
    /\ signArgs.requiredKeys = <<"K1">>

\* C6 witness of the other branch is the override list reaching sign
C6_OverrideReachesSign ==
    /\ requiredKeys.t = "list"
    /\ signArgs.called
    /\ signArgs.requiredKeys = <<"K9">>

\* a getCachedAbi call that began with an entry for its account and no reload
BeganCached(call) == ~call.reload /\ call.before.present

\* C7: a getCachedAbi call without reload that begins after an earlier call for
\* the account has filled the cache asks the ABI provider nothing and returns the
\* cached entry, so the two calls together issue exactly one fetch; a call with
\* reload issues a fetch of its own, and when that fetch is answered the cached
\* entry of the account becomes the {rawAbi, abi} just fetched, which the call
\* returns.
C7_OneFetchThenReload ==
    /\ [](\A i \in 1..MaxGets : gets[i].st # "none" =>
            /\ gets[i].asked = IF BeganCached(gets[i]) THEN 0 ELSE 1
            /\ BeganCached(gets[i]) =>
                 /\ gets[i].st = "done"
                 /\ gets[i].value = gets[i].before
            /\ \A j \in 1..MaxGets :
                 (/\ j < i
                  /\ gets[j].account = gets[i].account
                  /\ ~gets[j].reload
                  /\ ~gets[j].before.present
                  /\ BeganCached(gets[i])) => gets[j].asked + gets[i].asked = 1
            /\ (gets[i].st = "done" /\ gets[i].asked = 1) =>
                 gets[i].value = CachedAbi(gets[i].rawAbi))
    /\ [][\A i \in 1..MaxGets :
            (gets[i].st = "fetching" /\ gets'[i].st = "done") =>
                cachedAbis'[gets[i].account] = CachedAbi(gets'[i].rawAbi)]_vars

\* C7 witness: two calls without reload, the second answered from the cache, then
\* a reload that fetched another ABI and replaced the entry
C7_Witness ==
    /\ \A i \in 1..3 : gets[i].st = "done" /\ gets[i].account = "a1"
    /\ ~gets[1].reload /\ ~gets[2].reload /\ gets[3].reload
    /\ gets[1].asked = 1 /\ gets[2].asked = 0 /\ gets[3].asked = 1
    /\ gets[2].value = gets[1].value
    /\ gets[3].before = gets[1].value
    /\ gets[3].value # gets[1].value
    /\ cachedAbis["a1"] = gets[3].value

\* a number as 32 big-endian bytes, zero-padded on the left
Pad32(bn) == [i \in 1..(32 - Len(bn)) |-> 0] \o bn

\* C8: fromElliptic gives 65 bytes, header then r then s as 32 zero-padded
\* big-endian bytes each, and toElliptic gives back the r and s it was built from
C8_RoundTripRS ==
    /\ sigPc # "none" =>
         /\ Len(signature.data) = 65
         /\ SubSeq(signature.data, 2, 33) = Pad32(ellipticSig.r)
         /\ SubSeq(signature.data, 34, 65) = Pad32(ellipticSig.s)
    /\ sigPc = "decoded" =>
         /\ elliptic.r = ellipticSig.r
         /\ elliptic.s = ellipticSig.s

\* C9: toElliptic after fromElliptic gives recoveryParam & 3 of the original,
\* for every key type: a value of 0..3, and the original itself when that is in
\* 0..3
C9_RecoveryParamRoundTrip ==
    sigPc = "decoded" =>
        /\ elliptic.recoveryParam = And3(ellipticSig.recoveryParam)
        /\ elliptic.recoveryParam \in 0..3
        /\ ellipticSig.recoveryParam \in 0..3 =>
             elliptic.recoveryParam = ellipticSig.recoveryParam

\* C9 witness: a k1 signature with recoveryParam 5 decoded to 1, and the r1 and
\* wa cases are the decoded states of those types
C9_Witness ==
    /\ sigPc = "decoded"
    /\ signature.type = "k1"
    /\ ellipticSig.recoveryParam = 5
    /\ elliptic.recoveryParam = 1

\* C10: the header byte fromElliptic writes is recoveryParam + 31 for k1 and a
\* recoveryParam of 0..3, and the recoveryParam itself for r1 and wa
C10_HeaderTable ==
    sigPc # "none" =>
        /\ (signature.type = "k1" /\ ellipticSig.recoveryParam \in 0..3) =>
             /\ signature.data[1] = ellipticSig.recoveryParam + 31
             /\ signature.data[1] \in {31, 32, 33, 34}
        /\ signature.type \in {"r1", "wa"} =>
             /\ signature.data[1] = ToUint8(ellipticSig.recoveryParam)
             /\ ellipticSig.recoveryParam \in 0..3 =>
                  signature.data[1] = ellipticSig.recoveryParam

\* C10 witness: a k1 signature with recoveryParam 3 carries header 34
C10_Witness ==
    /\ sigPc = "encoded"
    /\ signature.type = "k1"
    /\ ellipticSig.recoveryParam = 3
    /\ signature.data[1] = 34

\* the number of bytes of the items before item i
BytesBefore(items, i) ==
    Cardinality(UNION {{<<j, k>> : k \in 1..Len(items[j])} : j \in 1..(i - 1)})

C11_EmptyListIsNull ==
    /\ cfdCall.called
    /\ cfdCall.contextFreeData = Cfd(<<>>)
    /\ cfdCall.buffer.null

\* the external operation a suspended transact() is waiting for
OpOf(at) == IF at = "generateTapos.get_info" THEN "get_info" ELSE at

\* some collaborator call of transact() fails, the header state call with its
\* get_block fallback left aside
Rejects ==
    \/ GetInfoReject
    \/ TaposInfoReject
    \/ GetBlockReject
    \/ \E a \in Accounts : AbiReject(a)
    \/ AvailableKeysReject
    \/ RequiredKeysReject
    \/ SignReject
    \/ PushReject

\* C12: when get_info, get_block, an ABI fetch, getAvailableKeys, getRequiredKeys,
\* sign or push_transaction fails, transact() fails at that step with that
\* operation's error (an ABI failure under its 'fetching abi for' prefix), with
\* no result and without issuing any further call; a failed call never holds a
\* result, never asked for a signature after an ABI, key or authority failure,
\* and never pushed after a failed sign.
C12_FailureStopsPipeline ==
    /\ [][Rejects =>
            /\ pc' = "failed"
            /\ \/ error' = <<OpOf(pc), " failed">>
               \/ /\ pc = "getRawAbi"
                  /\ \E a \in Accounts :
                       error' = <<"fetching abi for ", a, ": ", "getRawAbi", " failed">>
            /\ result' = NoResult
            /\ calls' = calls
            /\ keysArgs' = keysArgs
            /\ signArgs' = signArgs
            /\ pushed' = pushed]_vars
    /\ [](pc = "failed" =>
            /\ result = NoResult
            /\ Len(error) = 2 => (calls # <<>> /\ error[1] = OpOf(calls[Len(calls)]))
            /\ (\/ Len(error) = 5
                \/ error \in {<<"get_info", " failed">>, <<"get_block", " failed">>,
                               <<"getAvailableKeys", " failed">>,
                               <<"getRequiredKeys", " failed">>}) =>
                 (~signArgs.called /\ ~pushed.called)
            /\ error = <<"sign", " failed">> => ~pushed.called)

\* C12 witness: a call asked to sign and broadcast has failed at sign, with no
\* push_transaction
C12_Witness ==
    /\ pc = "failed"
    /\ config.sign /\ config.broadcast
    /\ signArgs.called
    /\ error = <<"sign", " failed">>
    /\ calls[Len(calls)] = "sign"
    /\ ~pushed.called
    /\ result = NoResult

\* C13 (as claimed): a getCachedAbi call whose fetched raw ABI carries an
\* unsupported version fails with the message 'Unsupported abi version' as it
\* was thrown, after its one fetch, and writes no cache entry.
C13_VersionErrorVerbatim ==
    \A i \in 1..MaxGets :
        (gets[i].st = "failed" /\ gets[i].rawAbi # <<>>) =>
            /\ ~supportedAbiVersion(gets[i].rawAbi)
            /\ gets[i].asked = 1
            /\ gets[i].error = <<"Unsupported abi version">>

\* C14: when abiProvider.getRawAbi(account) rejects with message m, the
\* getCachedAbi call fails with the message 'fetching abi for <account>: m',
\* having asked the provider once, and the cache is not written.
C14_FetchFailureRewrapped ==
    /\ [](\A i \in 1..MaxGets :
            /\ gets[i].asked <= 1
            /\ (gets[i].st = "failed" /\ gets[i].rawAbi = <<>>) =>
                 /\ gets[i].cause \in AbiProviderErrors
                 /\ gets[i].error =
                      <<"fetching abi for ", gets[i].account, ": ">> \o gets[i].cause
                 /\ gets[i].asked = 1)
    /\ [][\A i \in 1..MaxGets :
            (gets[i].st = "fetching" /\ gets'[i].st = "failed") =>
                (cachedAbis' = cachedAbis /\ gets'[i].asked = gets[i].asked)]_vars

\* C14 witness: a call for a2 has failed on the provider's error
C14_Witness ==
    \E i \in 1..MaxGets :
        /\ gets[i].st = "failed"
        /\ gets[i].account = "a2"
        /\ gets[i].cause = <<"unknown key (boost::tuples::tuple)">>
        /\ gets[i].error =
             <<"fetching abi for ", "a2", ": ", "unknown key (boost::tuples::tuple)">>
        /\ ~cachedAbis["a2"].present

\* C15: push_transaction is called only with broadcast = true. With compression
\* it gets the flag 1, the deflated serializedTransaction and the deflated
\* serializedContextFreeData, an absent one deflated as the empty buffer; without
\* compression it gets both buffers as they are, an absent one absent, and no
\* flag (0 here). The signatures are those of pushTransactionArgs either way.
C15_PushArguments ==
    pushed.called =>
        LET args == pushTransactionArgs
            cfd == args.serializedContextFreeData
        IN /\ config.broadcast
           /\ pushed.signatures = args.signatures
           /\ config.compression =>
                /\ pushed.compression = 1
                /\ pushed.serializedTransaction = <<120, 218>> \o args.serializedTransaction
                /\ ~pushed.serializedContextFreeData.null
                /\ pushed.serializedContextFreeData.bytes =
                     <<120, 218>> \o (IF cfd.null THEN <<>> ELSE cfd.bytes)
           /\ ~config.compression =>
                /\ pushed.compression = 0
                /\ pushed.serializedTransaction = args.serializedTransaction
                /\ pushed.serializedContextFreeData = cfd

\* C15 witness: a signed transaction without context-free data was pushed
\* compressed, the absent buffer as the deflate of no bytes
C15_Witness ==
    /\ pushed.called
    /\ config.compression
    /\ config.sign
    /\ pushTransactionArgs.serializedContextFreeData.null
    /\ pushed.serializedContextFreeData = Buf(<<120, 218>>)
    /\ pushed.signatures = <<"SIG">>
    /\ pushed.compression = 1

\* C15 witness of the other branch: pushed as it is, absent data absent
C15_UncompressedWitness ==
    /\ pushed.called
    /\ ~config.compression
    /\ pushed.serializedContextFreeData.null
    /\ pushed.serializedTransaction = pushTransactionArgs.serializedTransaction

TaposFields == {"expiration", "ref_block_num", "ref_block_prefix"}

\* the step in which generateTapos gets its reference block and returns
TaposMerged ==
    /\ pc \in {"get_block", "get_block_header_state"}
    /\ ~refBlock.present
    /\ refBlock'.present

\* C16: when generateTapos returns, each of expiration, ref_block_num and
\* ref_block_prefix the caller's transaction carries (null or non-numeric values
\* included) keeps the caller's value, each one it does not carry has the value
\* generated from the reference block, and nothing else of the transaction is
\* changed; only the serialization that may follow in the same step puts the
\* action data into hex form.
C16_CallerFieldsWin ==
    [][TaposMerged =>
        LET header == transactionHeader(refBlock', config.expireSeconds) IN
        /\ \A f \in TaposFields :
             transaction'[f] = IF transaction[f].t # "undef" THEN transaction[f]
                               ELSE header[f]
        /\ \A f \in TaposFields : transaction'[f].t # "undef"
        /\ transaction'.context_free_data = transaction.context_free_data
        /\ TxAccounts(transaction') = TxAccounts(transaction)
        /\ pc' \in {"failed", "getRawAbi"} =>
             /\ transaction'.actions = transaction.actions
             /\ transaction'.context_free_actions = transaction.context_free_actions]_vars

\* C16 witness: the caller's non-numeric ref_block_num is still there next to a
\* generated expiration and ref_block_prefix
C16_Witness ==
    /\ refBlock.present
    /\ transaction.ref_block_num = Str(2)
    /\ transaction.expiration = Str(refBlock.timestamp + 30)
    /\ transaction.ref_block_prefix = Num(refBlock.prefix)

\* C16 witness of a carried null: the caller's null expiration is kept
C16_NullKept ==
    /\ refBlock.present
    /\ transaction.expiration = Null
    /\ transaction.ref_block_num = Num(refBlock.block_num)

\* C17: once this.chainId is set, by the constructor or from get_info, no step
\* of any transact() call changes it or issues a get_info to resolve it, and
\* every sign request carries it.
C17_ChainIdSetOnce ==
    /\ [][chainId # "" =>
            /\ chainId' = chainId
            /\ pc' # "get_info"
            /\ Count(calls', "get_info") <= Count(calls, "get_info")]_vars
    /\ [](signArgs.called => (chainId # "" /\ signArgs.chainId = chainId))

\* C17 witness: the second call signs with the chain id the first call resolved,
\* without a get_info of its own
C17_Witness ==
    /\ ncalls = 2
    /\ chainId = "chainB"
    /\ signArgs.called
    /\ signArgs.chainId = "chainB"
    /\ Count(calls, "get_info") = 0

\* a transact() call is under way
InFlight == pc \notin {"idle", "done", "failed"}

\* the collaborator calls transact() suspends on
CollaboratorOps ==
    {"get_info", "generateTapos.get_info", "get_block", "get_block_header_state",
     "getRawAbi", "getAvailableKeys", "getRequiredKeys", "sign", "push_transaction"}

\* C18: a transact() call under way is always suspended on a collaborator call
\* that is outstanding, and, every such call being answered in the end, it
\* completes with a result or an error.
C18_TransactCompletes ==
    /\ [](InFlight =>
            /\ pc \in CollaboratorOps
            /\ calls # <<>>
            /\ calls[Len(calls)] = pc
            /\ pc = "getRawAbi" => \E a \in Accounts : abiTasks[a].st = "pending")
    /\ (InFlight ~> (pc \in {"done", "failed"}))

\* C18 witness: a call that went through every stage has completed with the
\* node's answer
C18_Witness ==
    /\ pc = "done"
    /\ result.kind = "receipt"
    /\ Count(calls, "getRawAbi") = 2
    /\ Count(calls, "get_block") = 1
    /\ Count(calls, "get_block_header_state") = 1
    /\ Count(calls, "sign") = 1

\* C19 (as claimed): a call whose transaction lacks a TAPoS field, with a numeric
\* blocksBehind or with useLastIrreversible, and with a numeric expireSeconds,
\* whatever the two numbers are, does not fail with 'Required configuration or
\* TAPOS fields are not present' while the field is still lacking: the fields
\* have been generated and merged by then.
C19_TaposGeneratedForEveryNumber ==
    (/\ pc = "failed"
     /\ LacksTaposField(transaction)
     /\ IsNumber(config.blocksBehind) \/ config.useLastIrreversible
     /\ IsNumber(config.expireSeconds))
    => error # <<"Required configuration or TAPOS fields are not present">>

\* the block calls of the log, in order
BlockCalls(log) ==
    SelectSeq(log, LAMBDA op : op \in {"get_block", "get_block_header_state"})

\* C20: the reference block generateTapos asks for is last_irreversible_block_num
\* with useLastIrreversible and head_block_num - blocksBehind otherwise; when
\* that number is at most last_irreversible_block_num the block is asked of
\* get_block alone, never of get_block_header_state, so never with
\* useLastIrreversible; above it get_block_header_state is asked first.
C20_ReferenceBlockChoice ==
    BlockCalls(calls) # <<>> =>
        /\ info.present
        /\ config.useLastIrreversible => blockArg = info.last_irreversible_block_num
        /\ ~config.useLastIrreversible =>
             blockArg = info.head_block_num - config.blocksBehind.v
        /\ blockArg <= info.last_irreversible_block_num =>
             /\ BlockCalls(calls) = <<"get_block">>
             /\ refBlock.present => refBlock = Block("get_block", blockArg)
        /\ config.useLastIrreversible => BlockCalls(calls) = <<"get_block">>
        /\ blockArg > info.last_irreversible_block_num =>
             BlockCalls(calls)[1] = "get_block_header_state"

\* C20 witness: with useLastIrreversible the last irreversible block itself was
\* fetched by get_block
C20_Witness ==
    /\ config.useLastIrreversible
    /\ refBlock = Block("get_block", info.last_irreversible_block_num)
    /\ BlockCalls(calls) = <<"get_block">>

\* C20 witness of blocksBehind: a block below the last irreversible one, by
\* get_block
C20_BehindWitness ==
    /\ ~config.useLastIrreversible
    /\ config.blocksBehind = Num(3)
    /\ refBlock = Block("get_block", info.head_block_num - 3)

\* C20 witness of the other branch: the head block itself, by
\* get_block_header_state
C20_NearHeadWitness ==
    /\ config.blocksBehind = Num(0)
    /\ refBlock = Block("get_block_header_state", info.head_block_num)

\* C21: for a reference block above last_irreversible_block_num generateTapos asks
\* get_block_header_state first; when that succeeds get_block is not called and
\* the answer is the reference block; when it fails get_block is called once, for
\* the same number, and its answer is the reference block; the call fails in
\* generation only when that get_block fails.
C21_HeaderStateThenFallback ==
    /\ []((BlockCalls(calls) # <<>> /\ blockArg > info.last_irreversible_block_num) =>
            /\ BlockCalls(calls) \in {<<"get_block_header_state">>,
                                      <<"get_block_header_state", "get_block">>}
            /\ pc = "get_block_header_state" => BlockCalls(calls) = <<"get_block_header_state">>
            /\ refBlock.present =>
                 refBlock = IF BlockCalls(calls) = <<"get_block_header_state">>
                            THEN Block("get_block_header_state", blockArg)
                            ELSE Block("get_block", blockArg)
            /\ (pc = "failed" /\ ~refBlock.present) =>
                 /\ BlockCalls(calls) = <<"get_block_header_state", "get_block">>
                 /\ error = <<"get_block", " failed">>)
    /\ [][pc = "get_block_header_state" =>
            /\ blockArg' = blockArg
            /\ pc' = "get_block" \/ refBlock'.present]_vars

\* C21 witness: get_block_header_state failed and the get_block fallback gave the
\* reference block
C21_Witness ==
    /\ blockArg > info.last_irreversible_block_num
    /\ BlockCalls(calls) = <<"get_block_header_state", "get_block">>
    /\ refBlock = Block("get_block", blockArg)

\* C21 witness of the failing fallback
C21_FallbackFailed ==
    /\ pc = "failed"
    /\ BlockCalls(calls) = <<"get_block_header_state", "get_block">>
    /\ error = <<"get_block", " failed">>

\* the getCachedAbi calls for an account whose fetch is still in flight
Fetching(account) ==
    {i \in 1..MaxGets : gets[i].st = "fetching" /\ gets[i].account = account}

\* C22: concurrent getCachedAbi(account, reload = true) calls each write the cache
\* only in the step in which their own fetch is answered, the write replaces the
\* entry whatever it held, and so the entry left when all have completed is the
\* answer of the fetch that resolved last, in whatever order they were issued.
C22_LastResolvedWins ==
    [][/\ \A a \in Accounts : cachedAbis'[a] # cachedAbis[a] =>
            \E i \in Fetching(a) :
                /\ gets'[i].st = "done"
                /\ cachedAbis'[a] = CachedAbi(gets'[i].rawAbi)
       /\ \A i \in 1..MaxGets :
            (gets[i].st = "fetching" /\ gets'[i].st = "done") =>
                /\ cachedAbis'[gets[i].account] = gets'[i].value
                /\ gets'[i].value = CachedAbi(gets'[i].rawAbi)
                /\ \A j \in Fetching(gets[i].account) \ {i} : gets'[j] = gets[j]
       /\ \A i \in 1..MaxGets :
            (gets[i].st = "none" /\ gets'[i].st # "none") => cachedAbis' = cachedAbis]_vars

\* C22 witness: two reload calls for one account in flight together, the second
\* issued answered first; the entry is the answer of the first issued, which
\* resolved last
C22_Witness ==
    /\ ngets = 2
    /\ \A i \in 1..2 : /\ gets[i].st = "done" /\ gets[i].account = "a1"
                        /\ gets[i].reload /\ ~gets[i].before.present
    /\ gets[1].rawAbi # gets[2].rawAbi
    /\ cachedAbis["a1"] = CachedAbi(gets[1].rawAbi)

\* the accounts the actions of a list name
AccountsOf(actions) == {actions[i].account : i \in 1..Len(actions)}

\* C23: getTransactionAbis calls getCachedAbi once for each distinct account named
\* by context_free_actions and actions, however many actions name it, asks the
\* ABI provider at most once per account, and returns one {accountName, abi: rawAbi}
\* pair per distinct account, none missing and none twice; the abis of the sign
\* request are these pairs.
C23_OnePairPerAccount ==
    LET accounts == AccountsOf(transaction.context_free_actions)
                        \cup AccountsOf(transaction.actions)
    IN /\ abiCalls # <<>> =>
            /\ SeqToSet(abiCalls) = accounts
            /\ Len(abiCalls) = Cardinality(accounts)
            /\ \A a \in Accounts : Count(fetched, a) <= 1
            /\ SeqToSet(fetched) \subseteq accounts
       /\ pc \in {"getRawAbi", "idle"} => abis = <<>>
       /\ (pc \notin {"getRawAbi", "idle", "failed"} /\ abiCalls # <<>>) => abis # <<>>
       /\ abis # <<>> =>
            /\ {abis[i].accountName : i \in 1..Len(abis)} = accounts
            /\ Len(abis) = Cardinality(accounts)
            /\ \A i \in 1..Len(abis) :
                  /\ abis[i].abi \in AbiAnswers
                  /\ supportedAbiVersion(abis[i].abi)
       /\ signArgs.called => signArgs.abis = abis /\ abis # <<>>

\* C23 witness: a signed call whose actions name a1 twice and whose context-free
\* action names a2 got two pairs, and asked the provider for each account once
C23_Witness ==
    /\ signArgs.called
    /\ Len(transaction.actions) = 2
    /\ transaction.actions[1].account = transaction.actions[2].account
    /\ Len(transaction.context_free_actions) = 1
    /\ Len(signArgs.abis) = 2
    /\ Len(fetched) = 2

\* C24 (as claimed): when a transact() call has failed in its ABI fetches and no
\* fetch it issued is still in flight, the accounts it asked the ABI provider
\* for are either all in the ABI cache or all absent from it.  Stated for the
\* first call on the Api object, whose cache was empty when it began.
C24_AbiGroupAllOrNothing ==
    (/\ ncalls = 1
     /\ pc = "failed"
     /\ error # <<>> /\ error[1] = "fetching abi for "
     /\ \A a \in Accounts : orphans[a] = 0)
    => \/ \A a \in SeqToSet(fetched) : cachedAbis[a].present
       \/ \A a \in SeqToSet(fetched) : ~cachedAbis[a].present

\* C25 (as claimed): in each serializeActions call of a transact() call the
\* descriptor of an account is built and stored in the contract cache at most
\* once, however many actions of the list name the account.
C25_DescriptorBuiltOnce ==
    \A k \in 1..Len(built) : \A a \in Accounts : Count(built[k], a) <= 1

\* C26: a getContract call without reload that finds a descriptor in the contract
\* cache returns it and asks the ABI provider nothing; a getContract call with
\* reload always asks the ABI provider, and when the answer is in, the ABI cache
\* entry becomes the {rawAbi, abi} fetched and the contract cache entry the
\* descriptor built from it, which the call returns, whatever was cached before.
C26_GetContractReload ==
    /\ [](\A i \in 1..MaxGetContracts : ctrs[i].st # "none" =>
            /\ (~ctrs[i].reload /\ ctrs[i].before.present) =>
                 /\ ctrs[i].asked = 0
                 /\ ctrs[i].st = "done"
                 /\ ctrs[i].value = ctrs[i].before
            /\ ctrs[i].reload =>
                 /\ ctrs[i].asked = 1
                 /\ ctrs[i].st \in {"fetching", "done", "failed"}
                 /\ ctrs[i].st = "done" =>
                      ctrs[i].value = Contract(rawAbiToJson(ctrs[i].rawAbi)))
    /\ [][\A i \in 1..MaxGetContracts :
            /\ (ctrs[i].st = "none" /\ ctrs'[i].st # "none") =>
                 cachedAbis' = cachedAbis /\ contracts' = contracts
            /\ (ctrs[i].reload /\ ctrs[i].st = "fetching" /\ ctrs'[i].st = "done") =>
                 /\ cachedAbis'[ctrs[i].account] = CachedAbi(ctrs'[i].rawAbi)
                 /\ contracts'[ctrs[i].account] = Contract(rawAbiToJson(ctrs'[i].rawAbi))
                 /\ ctrs'[i].value = contracts'[ctrs[i].account]]_vars

\* C26 witness: a reload that fetched the very ABI already cached, and rebuilt
C26_Witness ==
    /\ ctrs[1].st = "done" /\ ctrs[1].asked = 1
    /\ ctrs[2].st = "done" /\ ctrs[2].reload /\ ctrs[2].asked = 1
    /\ ctrs[2].account = ctrs[1].account
    /\ ctrs[2].before = ctrs[1].value
    /\ ctrs[2].rawAbi = ctrs[1].rawAbi

\* C26 witness: a reload that fetched another ABI and replaced both entries
C26_ReplacedWitness ==
    /\ ctrs[1].st = "done" /\ ctrs[1].asked = 1
    /\ ctrs[2].st = "done" /\ ctrs[2].reload
    /\ ctrs[2].before = ctrs[1].value
    /\ ctrs[2].value # ctrs[1].value
    /\ ngets = 0
    /\ contracts["a1"] = ctrs[2].value
    /\ cachedAbis["a1"] = CachedAbi(ctrs[2].rawAbi)

\* C26 witness: a call without reload answered from the contract cache
C26_CachedWitness ==
    /\ ctrs[2].st = "done" /\ ~ctrs[2].reload
    /\ ctrs[2].before.present
    /\ ctrs[2].asked = 0

\* C29 (as claimed): whenever the contract cache holds a descriptor for an
\* account, the ABI cache holds an entry for the account and the descriptor is
\* the one derived from the ABI of that entry.
C29_CachesAgree ==
    \A a \in Accounts : contracts[a].present =>
        /\ cachedAbis[a].present
        /\ contracts[a] = Contract(cachedAbis[a].abi)

\* C27: within one transact() call get_info, getAvailableKeys, getRequiredKeys,
\* sign and push_transaction are each called at most once, the ABI provider is
\* asked at most once per account, get_block_header_state at most once, and
\* get_block at most once, directly or as the fallback after a failed
\* get_block_header_state.
C27_NothingRetried ==
    /\ Count(calls, "get_info") + Count(calls, "generateTapos.get_info") <= 1
    /\ \A op \in {"getAvailableKeys", "getRequiredKeys", "sign", "push_transaction",
                   "get_block", "get_block_header_state"} : Count(calls, op) <= 1
    /\ \A a \in Accounts : Count(fetched, a) <= 1
    /\ Count(calls, "getRawAbi") = Len(fetched)

\* C27 witness: a call that failed at push_transaction after every collaborator,
\* the header-state fallback included, was asked once
C27_Witness ==
    /\ pc = "failed"
    /\ error = <<"push_transaction", " failed">>
    /\ \A op \in {"getRawAbi", "get_block_header_state", "get_block",
                   "getAvailableKeys", "getRequiredKeys", "sign", "push_transaction"} :
          Count(calls, op) >= 1
    /\ Count(calls, "get_info") + Count(calls, "generateTapos.get_info") = 1

\* C28: a getCachedAbi call that fails, because the provider rejected or because
\* the fetched ABI does not decode, leaves the ABI cache as it was: it creates no
\* entry, an entry present before a failed reload stays as it is, and a call
\* without reload that begins while the entry is there returns that entry.
C28_FailedFetchKeepsCache ==
    /\ [](\A a \in Accounts : cachedAbis[a].present =>
            \E i \in 1..MaxGets :
                /\ gets[i].st = "done" /\ gets[i].asked = 1 /\ gets[i].account = a
                /\ cachedAbis[a] = CachedAbi(gets[i].rawAbi))
    /\ [][\A i \in 1..MaxGets :
            /\ (gets[i].st = "fetching" /\ gets'[i].st = "failed") =>
                 /\ cachedAbis' = cachedAbis
                 /\ gets'[i].value = NoCachedAbi
            /\ (gets[i].st = "none" /\ gets'[i].st # "none" /\ ~gets'[i].reload
                   /\ cachedAbis[gets'[i].account].present) =>
                 /\ gets'[i].st = "done"
                 /\ gets'[i].value = cachedAbis[gets'[i].account]]_vars

\* C28 witness: a reload failed at the provider over an entry an earlier call had
\* stored, and a later call without reload got that entry
C28_Witness ==
    /\ gets[1].st = "done" /\ gets[1].asked = 1
    /\ gets[2].st = "failed" /\ gets[2].reload /\ gets[2].cause # <<>>
    /\ gets[2].before = gets[1].value
    /\ gets[3].st = "done" /\ ~gets[3].reload /\ gets[3].asked = 0
    /\ gets[3].value = gets[1].value
    /\ \A i \in 1..3 : gets[i].account = "a1"
    /\ cachedAbis["a1"] = gets[1].value

\* C28 witness: the same with a reload that fetched an ABI of an unsupported
\* version
C28_VersionWitness ==
    /\ gets[1].st = "done" /\ gets[1].asked = 1
    /\ gets[2].st = "failed" /\ gets[2].reload
    /\ gets[2].rawAbi # <<>> /\ ~supportedAbiVersion(gets[2].rawAbi)
    /\ gets[2].before = gets[1].value
    /\ gets[2].account = gets[1].account
    /\ cachedAbis[gets[1].account] = gets[1].value

\* C30: with sign = false transact() calls none of getAvailableKeys,
\* getRequiredKeys and sign; the tuple it returns, or hands on to be broadcast,
\* has no signatures and carries the transaction bytes and the context-free data
\* bytes serialized locally, and push_transaction gets no signatures and those
\* bytes, deflated under compression.
C30_UnsignedIsLocal ==
    (pc # "idle" /\ ~config.sign) =>
        LET local == [signatures |-> <<>>,
                      serializedTransaction |-> serializeTransaction(transaction),
                      serializedContextFreeData |->
                          serializeContextFreeData(transaction.context_free_data)]
            cfd == local.serializedContextFreeData
        IN /\ KeyCalls(calls) = <<>>
           /\ ~keysArgs.called /\ ~signArgs.called
           /\ pc \notin {"getAvailableKeys", "getRequiredKeys", "sign"}
           /\ (pc = "done" \/ pushed.called) => pushTransactionArgs = local
           /\ (pc = "done" /\ ~config.broadcast) =>
                result = [kind |-> "args", args |-> local]
           /\ pc = "done" => pushed.called = config.broadcast
           /\ pushed.called =>
                /\ pushed.signatures = <<>>
                /\ pushed.serializedTransaction =
                     IF config.compression
                     THEN deflateSerializedArray(local.serializedTransaction)
                     ELSE local.serializedTransaction
                /\ pushed.serializedContextFreeData =
                     IF config.compression
                     THEN Buf(deflateSerializedArray(IF cfd.null THEN <<>> ELSE cfd.bytes))
                     ELSE cfd

\* C30 witness: an unsigned transaction with context-free data was broadcast as
\* serialized
C30_Witness ==
    /\ pc = "done"
    /\ ~config.sign /\ config.broadcast /\ ~config.compression
    /\ pushed.called
    /\ pushed.signatures = <<>>
    /\ ~pushed.serializedContextFreeData.null
    /\ pushed.serializedTransaction = serializedTransaction
    /\ serializedTransaction # <<>>

\* C30 witness: an unsigned transaction was returned without broadcast
C30_ReturnedWitness ==
    /\ pc = "done"
    /\ ~config.sign /\ ~config.broadcast
    /\ result.kind = "args"
    /\ result.args.signatures = <<>>
    /\ result.args.serializedTransaction = serializedTransaction
    /\ serializedTransaction # <<>>

====
